---- MODULE Spec2Model ----
(***************************************************************************)
(* Model of the question -> SQL -> execution -> answer pipeline of         *)
(* src/app.py and of the POST /query/ endpoint of src/api.py.              *)
(*                                                                         *)
(* Python strings that the code inspects (the model's raw output, the      *)
(* cleaned SQL, the question) are sequences of one-character strings.      *)
(* Strings the code only passes on (database rows, exception texts, the    *)
(* synthesizer's answer) are TLA+ strings.                                 *)
(***************************************************************************)
EXTENDS Integers, Sequences, FiniteSets, TLC

VARIABLES
    pc,                \* position of the request being handled
    question,          \* query.question as the caller supplied it
    raw_response,      \* get_and_send: raw_response
    cleaned_sql,       \* get_and_send: cleaned_sql
    execution_result,  \* get_and_send: execution_result (a dict)
    nl_response,       \* get_and_send: nl_response, <<>> or <<text>>
    returned,          \* get_and_send's return value: <<>> or <<pair>>
    response,          \* what the endpoint answers: status and body
    llm_calls,         \* prompts sent to the language model in this request
    exec_in,           \* the statement given to the last call of execute_sql
    exec_db,           \* what the database did in that call
    exec_out,          \* the dict that call returned
    exec_calls,        \* the statements that call passed to db.run
    db_log,            \* every statement ever passed to db.run
    nreq,              \* requests and direct calls made so far
    fn_pc,             \* position of the pure-function harness
    fn_in,             \* its input string
    safe_out,          \* is_safe_sql(fn_in)
    clean_out,         \* clean_sql(fn_in)
    clean_twice        \* clean_sql(clean_sql(fn_in))

request_vars == <<question, raw_response, cleaned_sql, execution_result,
                  nl_response, returned, response, llm_calls>>

executor_vars == <<exec_in, exec_db, exec_out, exec_calls, db_log>>

harness_vars == <<fn_pc, fn_in, safe_out, clean_out, clean_twice>>

vars == <<pc, nreq, request_vars, executor_vars, harness_vars>>

-----------------------------------------------------------------------------
(* Bounds *)

MaxRequests == 2

MaxPad == 1

MaxTokens == 5

-----------------------------------------------------------------------------
(* Python str methods, on sequences of characters *)

Min(S) == CHOOSE m \in S : \A n \in S : m <= n

Max(S) == CHOOSE m \in S : \A n \in S : m >= n

\* the characters str.strip() removes that occur in the model's alphabet
Whitespace == {" ", "\n", "\t"}

\* s.strip(chars)
StripChars(s, chars) ==
    LET keep == {i \in 1..Len(s) : s[i] \notin chars}
    IN  IF keep = {} THEN <<>> ELSE SubSeq(s, Min(keep), Max(keep))

\* s.strip()
Strip(s) == StripChars(s, Whitespace)

\* s.startswith(p)
StartsWith(s, p) == Len(s) >= Len(p) /\ SubSeq(s, 1, Len(p)) = p

\* the indexes at which sub occurs in s
Occurrences(s, sub) ==
    {i \in 1..(Len(s) - Len(sub) + 1) : SubSeq(s, i, i + Len(sub) - 1) = sub}

\* sub in s
Contains(s, sub) == Occurrences(s, sub) # {}

\* s.replace(old, "", 1)
RemoveFirst(s, old) ==
    IF Occurrences(s, old) = {} THEN s
    ELSE LET i == Min(Occurrences(s, old))
         IN  SubSeq(s, 1, i - 1) \o SubSeq(s, i + Len(old), Len(s))

LowerLetters ==
    <<"a","b","c","d","e","f","g","h","i","j","k","l","m",
      "n","o","p","q","r","s","t","u","v","w","x","y","z">>

UpperLetters ==
    <<"A","B","C","D","E","F","G","H","I","J","K","L","M",
      "N","O","P","Q","R","S","T","U","V","W","X","Y","Z">>

UpperChar(c) ==
    IF \E i \in 1..Len(LowerLetters) : LowerLetters[i] = c
    THEN UpperLetters[CHOOSE i \in 1..Len(LowerLetters) : LowerLetters[i] = c]
    ELSE c

\* s.upper()
Upper(s) == [i \in 1..Len(s) |-> UpperChar(s[i])]

-----------------------------------------------------------------------------
(* src/app.py: the sanitizer *)

\* the backtick character (the parser admits no backtick inside a string)
BT == "BACKTICK"

FENCE == <<BT, BT, BT>>

SQLTAG == <<"s", "q", "l">>

clean_sql(raw) ==
    LET cleaned == Strip(raw)
    IN  IF StartsWith(cleaned, FENCE)
        THEN Strip(RemoveFirst(StripChars(cleaned, {BT}), SQLTAG))
        ELSE cleaned

forbidden ==
    { <<"D","R","O","P">>, <<"D","E","L","E","T","E">>,
      <<"U","P","D","A","T","E">>, <<"I","N","S","E","R","T">>,
      <<"A","L","T","E","R">>, <<"C","R","E","A","T","E">> }

\* a keyword check that forgets to uppercase the query
IsSafeSqlCaseSensitive(query) ==
    ~ \E keyword \in forbidden : Contains(query, keyword)

is_safe_sql(query) ==
    ~ \E keyword \in forbidden : Contains(Upper(query), keyword)

-----------------------------------------------------------------------------
(* Python values whose type the endpoint's response model checks *)

PyStr(text) == [type |-> "str", val |-> text]

PyDict(items) == [type |-> "dict", val |-> items]

\* bool(v) of a value db.run returns
Truthy(v) == v # ""

-----------------------------------------------------------------------------
(* src/app.py: the executor *)

\* what db.run(query) can do: raise, or return rows as text ("" when none)
DbOutcomes ==
    { [kind |-> "raise", val |-> "(1064) syntax error"],
      [kind |-> "raise", val |-> ""],
      [kind |-> "return", val |-> ""],
      [kind |-> "return", val |-> "[(1, 'exam')]"] }

\* the database was not asked
NotRun == [kind |-> "none", val |-> ""]

UnsafeText == "Unsafe SQL detected. Only SELECT queries are allowed."

\* an executor that lost its safety re-check
ExecuteSqlUnchecked(query, db) ==
    IF db.kind = "raise"
    THEN [out |-> "error" :> ("Database error: " \o db.val),
          db |-> db, runs |-> <<query>>]
    ELSE IF ~Truthy(db.val)
    THEN [out |-> "message" :> "No results found", db |-> db, runs |-> <<query>>]
    ELSE [out |-> "result" :> db.val, db |-> db, runs |-> <<query>>]

\* an executor that lost its empty-result test
ExecuteSqlNoEmptyTest(query, db) ==
    IF ~is_safe_sql(query)
    THEN [out |-> "error" :> UnsafeText, db |-> NotRun, runs |-> <<>>]
    ELSE IF db.kind = "raise"
    THEN [out |-> "error" :> ("Database error: " \o db.val),
          db |-> db, runs |-> <<query>>]
    ELSE [out |-> "result" :> db.val, db |-> db, runs |-> <<query>>]

\* execute_sql(query), the database behaving as db when it is asked:
\* out is the dict returned, runs the statements passed to db.run
execute_sql(query, db) ==
    IF ~is_safe_sql(query)
    THEN [out |-> "error" :> UnsafeText, db |-> NotRun, runs |-> <<>>]
    ELSE IF db.kind = "raise"
    THEN [out |-> "error" :> ("Database error: " \o db.val),
          db |-> db, runs |-> <<query>>]
    ELSE IF ~Truthy(db.val)
    THEN [out |-> "message" :> "No results found", db |-> db, runs |-> <<query>>]
    ELSE [out |-> "result" :> db.val, db |-> db, runs |-> <<query>>]

-----------------------------------------------------------------------------
(* src/app.py: the orchestrator's pieces *)

\* db.get_table_info()
Schema == "CREATE TABLE api_notice (...) CREATE TABLE api_routine (...)"

\* the prompt sql_chain sends: the template with schema and stripped question
GeneratePrompt(q) == [kind |-> "generate", a |-> Schema, b |-> Strip(q)]

\* a test that only looks for the error key
ShortCircuitsOnError(result) == "error" \in DOMAIN result

\* "error" in execution_result or "message" in execution_result
ShortCircuits(result) ==
    "error" \in DOMAIN result \/ "message" \in DOMAIN result

\* a summary prompt that leaves the statement out
SummaryPromptNoSql(sql, rows) == [kind |-> "summarize", a |-> <<>>, b |-> rows]

\* the f-string given to llm.invoke
SummaryPrompt(sql, rows) == [kind |-> "summarize", a |-> sql, b |-> rows]

\* what the language model may answer to the SQL prompt
SELECT1 == <<"S","E","L","E","C","T"," ","1">>

RawResponses ==
    { SELECT1,
      <<" ">> \o SELECT1 \o <<"\n">>,
      FENCE \o SQLTAG \o <<"\n">> \o SELECT1 \o <<"\n">> \o FENCE,
      <<"D","E","L","E","T","E"," ","x">>,
      FENCE \o <<"\n","d","r","o","p"," ","t","\n">> \o FENCE,
      <<"S","E","L","E","C","T"," ","u","p","d","a","t","e","d","A","t">>,
      FENCE \o <<"D","R">> \o SQLTAG \o <<"O","P">> \o FENCE }

\* what it may answer to the summary prompt
Answers == {"There is one exam notice.", ""}

Questions ==
    { <<"h","i">>, <<" ","h","i","\n">>, <<"d","e","l","e","t","e"," ","a","l","l">> }

\* statements a caller may hand to execute_sql directly
DirectStatements ==
    { SELECT1, <<"D","r","O","p"," ","t">>, <<"i","n","s","e","r","t">>,
      <<"A","L","T","E","R">> }

-----------------------------------------------------------------------------
(* src/api.py: the response model *)

NoResponse == [status |-> 0, body |-> <<>>]

\* the framework's answer to an exception that escapes the handler
ServerError == [status |-> 500, body |-> <<>>]

\* an envelope built from the question the pipeline saw
QueryResponseStripped(q, sql, result) ==
    IF result.type = "str"
    THEN [status |-> 200,
          body |-> <<[question |-> Strip(q), generatedQuery |-> sql,
                      result |-> result.val, success |-> TRUE]>>]
    ELSE ServerError

\* QueryResponse(question=..., generatedQuery=..., result=..., success=True):
\* the field result is declared str, and a dict is no valid str, so the
\* constructor raises a validation error inside the handler
QueryResponse(q, sql, result) ==
    IF result.type = "str"
    THEN [status |-> 200,
          body |-> <<[question |-> q, generatedQuery |-> sql,
                      result |-> result.val, success |-> TRUE]>>]
    ELSE ServerError

-----------------------------------------------------------------------------
(* One request through POST /query/, step by step, and direct calls of     *)
(* execute_sql.  Requests share no state but the database, so one request  *)
(* at a time shows all there is.                                           *)

Idle == pc \in {"idle", "done"}

\* the endpoint receives a question
Post ==
    /\ Idle
    /\ nreq < MaxRequests
    /\ \E q \in Questions : question' = q
    /\ pc' = "received"
    /\ nreq' = nreq + 1
    /\ raw_response' = <<>>
    /\ cleaned_sql' = <<>>
    /\ execution_result' = <<>>
    /\ nl_response' = <<>>
    /\ returned' = <<>>
    /\ response' = NoResponse
    /\ llm_calls' = <<>>
    /\ UNCHANGED <<executor_vars, harness_vars>>

\* sql_chain.invoke(...) answers, and clean_sql cleans the answer
Generate ==
    /\ pc = "received"
    /\ \E raw \in RawResponses :
          /\ raw_response' = raw
          /\ cleaned_sql' = clean_sql(raw)
    /\ llm_calls' = Append(llm_calls, GeneratePrompt(question))
    /\ pc' = "generated"
    /\ UNCHANGED <<nreq, question, execution_result, nl_response, returned,
                   response, executor_vars, harness_vars>>

\* sql_chain.invoke(...) raises: nothing catches it
GenerateFails ==
    /\ pc = "received"
    /\ llm_calls' = Append(llm_calls, GeneratePrompt(question))
    /\ response' = ServerError
    /\ pc' = "done"
    /\ UNCHANGED <<nreq, question, raw_response, cleaned_sql, execution_result,
                   nl_response, returned, executor_vars, harness_vars>>

\* execution_result = execute_sql(cleaned_sql)
Execute ==
    /\ pc = "generated"
    /\ \E db \in DbOutcomes :
          LET r == execute_sql(cleaned_sql, db)
          IN  /\ execution_result' = r.out
              /\ exec_in' = cleaned_sql
              /\ exec_db' = r.db
              /\ exec_out' = r.out
              /\ exec_calls' = r.runs
              /\ db_log' = db_log \cup {r.runs[i] : i \in 1..Len(r.runs)}
    /\ pc' = "executed"
    /\ UNCHANGED <<nreq, question, raw_response, cleaned_sql, nl_response,
                   returned, response, llm_calls, harness_vars>>

\* a ReturnDirectly that asks for the summary first and then drops it
ReturnDirectlySummarizing ==
    /\ pc = "executed"
    /\ ShortCircuits(execution_result)
    /\ llm_calls' = Append(llm_calls, SummaryPrompt(cleaned_sql, ""))
    /\ returned' = << <<cleaned_sql, PyDict(execution_result)>> >>
    /\ pc' = "returned"
    /\ UNCHANGED <<nreq, question, raw_response, cleaned_sql, execution_result,
                   nl_response, response, executor_vars, harness_vars>>

\* return cleaned_sql, execution_result
ReturnDirectly ==
    /\ pc = "executed"
    /\ ShortCircuits(execution_result)
    /\ returned' = << <<cleaned_sql, PyDict(execution_result)>> >>
    /\ pc' = "returned"
    /\ UNCHANGED <<nreq, question, raw_response, cleaned_sql, execution_result,
                   nl_response, response, llm_calls, executor_vars, harness_vars>>

\* nl_response = llm.invoke(...); return cleaned_sql, nl_response.
\* execution_result['result'] raises KeyError when the key is missing, before
\* the model is called, and nothing catches it.
Synthesize ==
    /\ pc = "executed"
    /\ ~ShortCircuits(execution_result)
    /\ IF "result" \in DOMAIN execution_result
       THEN /\ llm_calls' = Append(llm_calls,
                   SummaryPrompt(cleaned_sql, execution_result["result"]))
            /\ \E answer \in Answers :
                  /\ nl_response' = <<answer>>
                  /\ returned' = << <<cleaned_sql, PyStr(answer)>> >>
            /\ pc' = "returned"
            /\ UNCHANGED response
       ELSE /\ response' = ServerError
            /\ pc' = "done"
            /\ UNCHANGED <<llm_calls, nl_response, returned>>
    /\ UNCHANGED <<nreq, question, raw_response, cleaned_sql, execution_result,
                   executor_vars, harness_vars>>

\* llm.invoke(...) raises: nothing catches it
SynthesizeFails ==
    /\ pc = "executed"
    /\ ~ShortCircuits(execution_result)
    /\ "result" \in DOMAIN execution_result
    /\ llm_calls' = Append(llm_calls,
             SummaryPrompt(cleaned_sql, execution_result["result"]))
    /\ response' = ServerError
    /\ pc' = "done"
    /\ UNCHANGED <<nreq, question, raw_response, cleaned_sql, execution_result,
                   nl_response, returned, executor_vars, harness_vars>>

\* the handler builds the envelope from get_and_send's pair
Respond ==
    /\ pc = "returned"
    /\ response' = QueryResponse(question, returned[1][1], returned[1][2])
    /\ pc' = "done"
    /\ UNCHANGED <<nreq, question, raw_response, cleaned_sql, execution_result,
                   nl_response, returned, llm_calls, executor_vars, harness_vars>>

\* execute_sql called on its own, outside the pipeline
ExecuteDirect ==
    /\ Idle
    /\ nreq < MaxRequests
    /\ \E query \in DirectStatements, db \in DbOutcomes :
          LET r == execute_sql(query, db)
          IN  /\ exec_in' = query
              /\ exec_db' = r.db
              /\ exec_out' = r.out
              /\ exec_calls' = r.runs
              /\ db_log' = db_log \cup {r.runs[i] : i \in 1..Len(r.runs)}
    /\ nreq' = nreq + 1
    /\ UNCHANGED <<pc, request_vars, harness_vars>>

InitPipeline ==
    /\ pc = "idle"
    /\ nreq = 0
    /\ question = <<>>
    /\ raw_response = <<>>
    /\ cleaned_sql = <<>>
    /\ execution_result = <<>>
    /\ nl_response = <<>>
    /\ returned = <<>>
    /\ response = NoResponse
    /\ llm_calls = <<>>
    /\ exec_in = <<>>
    /\ exec_db = NotRun
    /\ exec_out = <<>>
    /\ exec_calls = <<>>
    /\ db_log = {}

InitHarness ==
    /\ fn_pc = "off"
    /\ fn_in = <<>>
    /\ safe_out = FALSE
    /\ clean_out = <<>>
    /\ clean_twice = <<>>

Init == InitPipeline /\ InitHarness

Next ==
    \/ Post
    \/ Generate
    \/ GenerateFails
    \/ Execute
    \/ ReturnDirectly
    \/ Synthesize
    \/ SynthesizeFails
    \/ Respond
    \/ ExecuteDirect

Spec == Init /\ [][Next]_vars

-----------------------------------------------------------------------------
(* The sanitizer's two functions on their own: an input is drawn, then the *)
(* function is applied to it.                                              *)

RECURSIVE StringsUpTo(_, _)
\* every concatenation of at most n of the given pieces
StringsUpTo(pieces, n) ==
    IF n = 0 THEN {<<>>}
    ELSE LET shorter == StringsUpTo(pieces, n - 1)
         IN  shorter \cup {s \o p : s \in shorter, p \in pieces}

\* a keyword with each letter in either case
CaseVariants(k) ==
    { [i \in 1..Len(k) |-> IF up[i] THEN k[i] ELSE LowerLetters[
          CHOOSE n \in 1..Len(UpperLetters) : UpperLetters[n] = k[i]]] :
      up \in [1..Len(k) -> BOOLEAN] }

\* the keyword, in upper or in lower case, with one letter left out
NearMisses(k) ==
    { SubSeq(v, 1, i - 1) \o SubSeq(v, i + 1, Len(v)) :
      v \in {k, [n \in 1..Len(k) |-> LowerLetters[
                 CHOOSE m \in 1..Len(UpperLetters) : UpperLetters[m] = k[n]]]},
      i \in 1..Len(k) }

PadPieces == { <<" ">>, <<"e">>, <<"P">> }

\* queries for is_safe_sql: a keyword spelling, a near miss or nothing,
\* between two pads
SafeInputs(padding) ==
    LET pads == StringsUpTo(PadPieces, padding)
        mids == {<<>>} \cup UNION {CaseVariants(k) \cup NearMisses(k) : k \in forbidden}
    IN  {pre \o mid \o post : pre \in pads, mid \in mids, post \in pads}

CleanPieces ==
    { FENCE, SQLTAG, <<BT>>, <<" ">>, <<"\n">>, <<"s">>, <<"q">>, <<"l">> }

\* raw responses for clean_sql
CleanInputs(tokens) == StringsUpTo(CleanPieces, tokens)

InitSafe ==
    /\ InitPipeline
    /\ fn_pc = "input"
    /\ fn_in \in SafeInputs(MaxPad)
    /\ safe_out = FALSE
    /\ clean_out = <<>>
    /\ clean_twice = <<>>

\* safe_out = is_safe_sql(fn_in)
ApplyIsSafe ==
    /\ fn_pc = "input"
    /\ safe_out' = is_safe_sql(fn_in)
    /\ fn_pc' = "checked"
    /\ UNCHANGED <<pc, nreq, request_vars, executor_vars, fn_in, clean_out,
                   clean_twice>>

SpecSafe == InitSafe /\ [][ApplyIsSafe]_vars

InitClean ==
    /\ InitPipeline
    /\ fn_pc = "input"
    /\ fn_in \in CleanInputs(MaxTokens)
    /\ safe_out = FALSE
    /\ clean_out = <<>>
    /\ clean_twice = <<>>

\* clean_out = clean_sql(fn_in)
ApplyClean ==
    /\ fn_pc = "input"
    /\ clean_out' = clean_sql(fn_in)
    /\ fn_pc' = "cleaned"
    /\ UNCHANGED <<pc, nreq, request_vars, executor_vars, fn_in, safe_out,
                   clean_twice>>

\* clean_twice = clean_sql(clean_out)
ApplyCleanAgain ==
    /\ fn_pc = "cleaned"
    /\ clean_twice' = clean_sql(clean_out)
    /\ fn_pc' = "recleaned"
    /\ UNCHANGED <<pc, nreq, request_vars, executor_vars, fn_in, safe_out,
                   clean_out>>

NextClean == ApplyClean \/ ApplyCleanAgain

SpecClean == InitClean /\ [][NextClean]_vars

-----------------------------------------------------------------------------
(* What the claims speak of, stated apart from the code's own tests *)

LowerChar(c) ==
    IF \E i \in 1..Len(UpperLetters) : UpperLetters[i] = c
    THEN LowerLetters[CHOOSE i \in 1..Len(UpperLetters) : UpperLetters[i] = c]
    ELSE c

\* q holds one of the six keywords at some position, each letter in either case
MentionsForbidden(q) ==
    \E k \in forbidden : \E i \in 1..(Len(q) - Len(k) + 1) :
        \A j \in 1..Len(k) : q[i + j - 1] \in {k[j], LowerChar(k[j])}

\* the execution outcome is the error or the informational variant
Absorbed ==
    "error" \in DOMAIN execution_result \/ "message" \in DOMAIN execution_result

\* the text the outcome carries
OutcomeText ==
    IF "error" \in DOMAIN execution_result THEN execution_result["error"]
    ELSE execution_result["message"]

SummaryCalls == {i \in 1..Len(llm_calls) : llm_calls[i].kind = "summarize"}

-----------------------------------------------------------------------------
(* Claims about the pipeline, checked under Spec *)

\* C1: a request whose generator call succeeded and whose execution outcome
\* is unsafe SQL, a database error or an empty result ends with a normal
\* response envelope (status 200, success true) whose result field is the
\* outcome's message text; with DELETE in the generated SQL that text is the
\* unsafe-SQL text.
C1_AbsorbedIntoEnvelope ==
    (pc = "done" /\ Absorbed) =>
        /\ response.status = 200
        /\ Len(response.body) = 1
        /\ response.body[1].result = OutcomeText
        /\ response.body[1].success = TRUE
        /\ (MentionsForbidden(cleaned_sql) => response.body[1].result = UnsafeText)

\* C2: no statement that mentions DROP, DELETE, UPDATE, INSERT, ALTER or
\* CREATE in any letter case is ever passed to the database, and execute_sql
\* on such a statement, from the pipeline or called directly, returns the
\* error variant having made no database call.
C2_NoUnsafeStatementRuns ==
    /\ \A stmt \in db_log : ~MentionsForbidden(stmt)
    /\ (exec_out # <<>> /\ MentionsForbidden(exec_in)) =>
          /\ DOMAIN exec_out = {"error"}
          /\ exec_calls = <<>>
          /\ exec_db = NotRun

C2_Witness ==
    /\ MentionsForbidden(exec_in)
    /\ ~ \E k \in forbidden : Contains(exec_in, k)
    /\ DOMAIN exec_out = {"error"}
    /\ exec_calls = <<>>
    /\ db_log # {}

C7_ShortCircuit ==
    [][/\ Absorbed' => (SummaryCalls' = {} /\ nl_response' = <<>>)
       /\ (pc = "executed" /\ Absorbed) =>
             /\ pc' = "returned"
             /\ returned' = << <<cleaned_sql, PyDict(execution_result)>> >>
             /\ llm_calls' = llm_calls]_vars

C7_Witness ==
    /\ pc = "returned"
    /\ "message" \in DOMAIN execution_result
    /\ returned = << <<cleaned_sql, PyDict(execution_result)>> >>
    /\ Len(llm_calls) = 1

\* C8: when execution yields the result variant and get_and_send returns,
\* the synthesizer was invoked exactly once, after execution, with a prompt
\* embedding the cleaned SQL and the raw result; the pair returned is
\* (cleaned SQL, the synthesizer's output), and the cleaned SQL is the
\* statement that was executed.
C8_SynthesizedOnce ==
    /\ (SummaryCalls # {} => "result" \in DOMAIN execution_result)
    /\ (pc = "returned" /\ "result" \in DOMAIN execution_result) =>
          /\ SummaryCalls = {Len(llm_calls)}
          /\ llm_calls[Len(llm_calls)].a = cleaned_sql
          /\ llm_calls[Len(llm_calls)].b = execution_result["result"]
          /\ Len(nl_response) = 1
          /\ returned = << <<cleaned_sql, PyStr(nl_response[1])>> >>
          /\ exec_in = cleaned_sql
          /\ exec_calls = <<cleaned_sql>>

C8_Witness ==
    /\ pc = "returned"
    /\ "result" \in DOMAIN execution_result
    /\ cleaned_sql # raw_response
    /\ Len(nl_response) = 1
    /\ returned[1][2] = PyStr(nl_response[1])

\* C9 as stated: every call of get_and_send that returns has invoked the
\* language model exactly twice, with different prompts.
C9_AlwaysTwoCalls ==
    (pc = "returned") =>
        /\ Len(llm_calls) = 2
        /\ llm_calls[1] # llm_calls[2]

\* C9 as amended: every call of get_and_send that returns has invoked the
\* language model once to generate SQL and, only when execution yielded the
\* result variant, a second time with a different prompt to summarize; for
\* the error and informational variants it is invoked exactly once.
C9_OneOrTwoCalls ==
    (pc = "returned" \/ (pc = "done" /\ returned # <<>>)) =>
        /\ Len(llm_calls) = (IF "result" \in DOMAIN execution_result THEN 2 ELSE 1)
        /\ llm_calls[1] = GeneratePrompt(question)
        /\ Len(llm_calls) = 2 =>
              /\ llm_calls[2].kind = "summarize"
              /\ llm_calls[1] # llm_calls[2]

C9_Witness ==
    /\ pc = "returned"
    /\ "error" \in DOMAIN execution_result
    /\ exec_calls = <<cleaned_sql>>
    /\ Len(llm_calls) = 1

\* C10: every call of execute_sql returns a dict with exactly one of the keys
\* error, message, result: the unsafe-SQL error for an unsafe statement; for a
\* safe one, the error carrying the exception's text when the database call
\* raises, the message No results found when it returns a falsy value, and
\* otherwise the result carrying the value returned.
C10_OneVariantPerOutcome ==
    (exec_out # <<>>) =>
        /\ Cardinality(DOMAIN exec_out) = 1
        /\ DOMAIN exec_out \subseteq {"error", "message", "result"}
        /\ MentionsForbidden(exec_in) =>
              exec_out = ("error" :> UnsafeText)
        /\ ~MentionsForbidden(exec_in) =>
              /\ exec_db \in DbOutcomes
              /\ exec_calls = <<exec_in>>
              /\ exec_db.kind = "raise" =>
                    exec_out = ("error" :> ("Database error: " \o exec_db.val))
              /\ (exec_db.kind = "return" /\ exec_db.val = "") =>
                    exec_out = ("message" :> "No results found")
              /\ (exec_db.kind = "return" /\ exec_db.val # "") =>
                    exec_out = ("result" :> exec_db.val)

C10_Witness ==
    /\ exec_db = [kind |-> "raise", val |-> "(1064) syntax error"]
    /\ exec_out = ("error" :> "Database error: (1064) syntax error")
    /\ exec_calls = <<exec_in>>

-----------------------------------------------------------------------------
(* Claims about the sanitizer's functions, checked under SpecSafe and      *)
(* SpecClean                                                               *)

\* C4: is_safe_sql(q) is false for every q that holds one of DROP, DELETE,
\* UPDATE, INSERT, ALTER, CREATE as a substring in any letter case, anywhere
\* in q and inside a longer word, and true for every q that holds none.
C4_SafeIffNoKeyword ==
    (fn_pc = "checked") => (safe_out <=> ~MentionsForbidden(fn_in))

\* a keyword in mixed case inside a longer word is rejected
C4_Witness ==
    /\ fn_pc = "checked"
    /\ safe_out = FALSE
    /\ fn_in = <<"e", "u", "P", "d", "A", "t", "E", "e">>

EndsWith(s, p) == Len(s) >= Len(p) /\ SubSeq(s, Len(s) - Len(p) + 1, Len(s)) = p

\* x is optional whitespace, a fence, an optional sql tag, a statement, a
\* fence, optional whitespace
Fenced(x) ==
    /\ Len(Strip(x)) >= 2 * Len(FENCE)
    /\ StartsWith(Strip(x), FENCE)
    /\ EndsWith(Strip(x), FENCE)

\* what lies between the two fences
Inner(x) == SubSeq(Strip(x), Len(FENCE) + 1, Len(Strip(x)) - Len(FENCE))

\* the statement: what follows the tag when the inner text starts with it
Statement(x) ==
    IF StartsWith(Inner(x), SQLTAG)
    THEN SubSeq(Inner(x), Len(SQLTAG) + 1, Len(Inner(x)))
    ELSE Inner(x)

\* a statement that is there, holds no fence of its own, and whose backticks
\* quote identifiers: an even number of them, no two adjacent
PlainStatement(stmt) ==
    /\ Strip(stmt) # <<>>
    /\ ~Contains(stmt, FENCE)
    /\ Cardinality({i \in 1..Len(stmt) : stmt[i] = BT}) % 2 = 0
    /\ ~Contains(stmt, <<BT, BT>>)

\* C5: for a fenced raw response clean_sql returns exactly the statement with
\* its leading and trailing whitespace removed, also when the statement holds
\* the letters sql, begins or ends with a backtick-quoted identifier, or has
\* no tag before it; for a raw response that does not start with a fence it
\* returns the input trimmed.
C5_FenceStripped ==
    (fn_pc = "cleaned") =>
        /\ (Fenced(fn_in) /\ PlainStatement(Statement(fn_in))) =>
              clean_out = Strip(Statement(fn_in))
        /\ ~StartsWith(Strip(fn_in), FENCE) => clean_out = Strip(fn_in)

\* C6: clean_sql(clean_sql(x)) = clean_sql(x) for every string x.
C6_Idempotent ==
    (fn_pc = "recleaned") => clean_twice = clean_out

====
